---- MODULE Spec2Model ----
(***************************************************************************)
(* Multi-account inventory collector (src/src/collector/enhanced_main.py). *)
(*                                                                         *)
(* Spec / FairSpec : AWSInventoryCollector.collect_inventory, the account  *)
(*   fan-out, the per-account region/type fan-out, save_to_dynamodb and    *)
(*   the epilogue of main, as threads that interleave.                     *)
(* RerunSpec       : successive runs of main for one account, writing to   *)
(*   the same DynamoDB table.                                              *)
(* WriterSpec      : the store writers (save_to_dynamodb, save_to_table,   *)
(*   save_findings) applied to bounded resource lists and store states.    *)
(* RetrySpec       : one call through assume_role, _backoff or a tenacity  *)
(*   retry decorator, attempt by attempt.                                  *)
(* PoolSpec        : the thread pools of collect_inventory and of          *)
(*   collect_account_inventory, tasks counted per account.                 *)
(* GraphSpec       : AzureResourceGraphCollector.collect over a paged      *)
(*   query result (src/src/azure_collect.py).                              *)
(* RecallSpec      : collect_inventory called again on the same collector  *)
(*   object after load_config.                                             *)
(* SqlSpec         : AzureInventoryCollector.collect_sql_databases over    *)
(*   the databases of a subscription, one loop pass per step.              *)
(* CostSpec        : AzureCostCollector.update_daily_cost on a container   *)
(*   that holds the records of earlier days.                               *)
(* ConvertSpec     : the item save_to_dynamodb builds for one resource     *)
(*   with nested attributes (convert_floats).                              *)
(*                                                                         *)
(* Strings that are joined or rewritten by the code (keys) are sequences   *)
(* of tokens; a token is a piece of text without '#' and '/' or one of     *)
(* those two separators.                                                   *)
(***************************************************************************)
EXTENDS Integers, Sequences, FiniteSets, Bags, TLC

VARIABLES
    accounts,            \* self.accounts: names of the enabled accounts
    resource_types,      \* self.resource_types
    excluded_regions,    \* self.excluded_regions
    failed_collections,  \* self.failed_collections
    pc,                  \* position of the thread that calls collect_inventory
    clock,               \* datetime.now(UTC): one tick per call of collect_inventory
    all_resources,       \* collect_inventory's local all_resources
    acct,                \* the account futures and the locals of their tasks
    table,               \* the DynamoDB table: a bag of items
    saveCalls,           \* invocations of save_to_dynamodb in the current run
    saveArg,             \* argument of the last invocation
    saveFault,           \* index of the put that raised in it (0: none)
    exitCode,            \* exit status of main
    summaryFailed,       \* the "Failed collections: n" line of main (0: none)
    table_url,           \* AzureInventoryCollector.table_url is set
    wWriter,             \* WriterSpec: the store writer that is called
    wList,               \* WriterSpec: the list passed to it
    wStore,              \* WriterSpec: the table it writes to
    wHist,               \* WriterSpec: the calls made so far
    retry,               \* RetrySpec: one call through a retry policy
    pool,                \* PoolSpec: the two nested thread pools of a run
    graph,               \* GraphSpec: one call of AzureResourceGraphCollector.collect
    sql,                 \* SqlSpec: one call of collect_sql_databases
    conv,                \* ConvertSpec: one resource on its way into a DynamoDB item
    cost                 \* CostSpec: the cost container and the calls of update_daily_cost

orchVars == <<accounts, resource_types, excluded_regions, failed_collections,
              pc, clock, all_resources, acct, table, saveCalls, saveArg, saveFault,
              exitCode, summaryFailed>>
writerVars == <<table_url, wWriter, wList, wStore, wHist>>
unitVars == <<retry, pool, graph, sql, conv, cost>>
vars == <<accounts, resource_types, excluded_regions, failed_collections,
          pc, clock, all_resources, acct, table, saveCalls, saveArg, saveFault,
          exitCode, summaryFailed, table_url, wWriter, wList, wStore, wHist,
          retry, pool, graph, sql, conv, cost>>

----------------------------------------------------------------------------
(* Bounds of the model *)

\* calls of collect_inventory on one collector object (RerunSpec)
MaxRuns == 2
\* resources one Cloud API listing can return
MaxRes == 1

\* accounts of a run, (region, type) tasks of an account and (region, type)
\* tasks of all accounts together (PoolSpec)
MaxPoolAccounts == 6
MaxPoolTasks == 11
MaxPoolLoad == 11

\* pages of a Resource Graph query result and items of a page (GraphSpec)
MaxPages == 3
MaxPageLen == 1

\* databases that list_by_subscription returns (SqlSpec)
MaxDbs == 3

\* nesting depth of the attributes of a resource and entries of one of its
\* dicts or lists (ConvertSpec)
MaxDepth == 1
MaxKids == 1

\* days with a cost record and calls of update_daily_cost (CostSpec)
MaxDays == 2
MaxUpdates == 2

\* length of the list handed to a store writer (WriterSpec)
MaxLen == 2
\* calls of the store writers on one store (WriterSpec)
MaxWrites == 2
\* collection times of the resources handed to a store writer (WriterSpec)
MaxStamp == 2

\* accounts that the configuration file may name
AccountNames == {"dev", "prod"}
\* the 'account_id' of each configured account
AccountId == [a \in AccountNames |-> IF a = "dev" THEN <<"111">> ELSE <<"222">>]
\* what describe_regions answers when it succeeds
DescribedRegions == <<"us-east-1", "eu-west-1">>
\* the values excluded_regions takes in the configurations explored
ExcludedChoices == {{"eu-west-1"}, {"us-east-1", "eu-west-1"}}
\* the values resource_types takes in the configurations explored
ResourceTypeChoices == {{}, {"s3"}, {"ec2", "rds"}, {"lambda", "s3"}}
\* one more configuration explored: one resource type and no excluded region
AllRegions == [resource_types |-> {"lambda"}, excluded_regions |-> {}]

----------------------------------------------------------------------------
(* Helpers *)

\* the elements of a sequence
Range(s) == {s[i] : i \in DOMAIN s}

\* the multiset of the elements of a list
RECURSIVE SeqToBag(_)
SeqToBag(s) == IF s = <<>> THEN EmptyBag ELSE SetToBag({Head(s)}) (+) SeqToBag(Tail(s))

\* variant: the append writes back a list that was read before the other
\* appends of the run
list_append_stale(list, entries) == entries

\* list.append of each of entries, one indivisible step of the interpreter
list_append(list, entries) == list \o entries

\* variant: the result of the task that completed last replaces the list
list_extend_last(list, items) == items

\* list.extend
list_extend(list, items) == list \o items

----------------------------------------------------------------------------
(* Role acquisition and region enumeration *)

max_retries == 3

\* assume_role with `failures` consecutive ClientErrors from STS: the number
\* of STS calls made and whether a session is returned or the error raised
assume_role(failures) ==
    IF failures < max_retries
    THEN [ok |-> TRUE, sts |-> failures + 1]
    ELSE [ok |-> FALSE, sts |-> max_retries]

\* the list the except clause of get_regions returns
fallback_regions == <<"us-east-1">>

\* get_regions: session.client('ec2') is called before the try block and
\* its exception (no region configured for the session) leaves the
\* function; with a client, the described regions minus the excluded ones,
\* or the fallback when describe_regions raises
get_regions(clientOk, describeOk) ==
    IF ~clientOk THEN [raised |-> TRUE, regions |-> <<>>]
    ELSE IF describeOk
    THEN [raised |-> FALSE,
          regions |-> SelectSeq(DescribedRegions, LAMBDA r : r \notin excluded_regions)]
    ELSE [raised |-> FALSE, regions |-> fallback_regions]

----------------------------------------------------------------------------
(* Per-resource collectors *)

\* resource_type written by the collector of each configured type
ResourceTypeOf(t) ==
    CASE t = "ec2" -> <<"ec2_instance">>
      [] t = "rds" -> <<"rds_instance">>
      [] t = "lambda" -> <<"lambda_function">>
      [] t = "s3" -> <<"s3_bucket">>

\* the record a collector builds for the k-th item of a listing
Resource(t, k, a, region, now) ==
    [resource_type |-> ResourceTypeOf(t), resource_id |-> <<k>>,
     account_id |-> AccountId[a], account_name |-> a,
     region |-> <<region>>, timestamp |-> now, estimated_monthly_cost |-> 0]

\* collect_ec2_instances / collect_rds_instances / collect_lambda_functions:
\* the n items read before the listing ended or raised; the error, if any,
\* is logged inside the collector and the list built so far is returned
collect_regional(t, a, region, n, now) ==
    [k \in 1..n |-> Resource(t, k, a, region, now)]

\* collect_s3_buckets: 'global', replaced by the bucket location when
\* get_bucket_location answers
collect_s3_buckets(a, n, located, now) ==
    [k \in 1..n |-> Resource("s3", k, a, IF located THEN "us-east-1" ELSE "global", now)]

----------------------------------------------------------------------------
(* Store writer: save_to_dynamodb *)

\* variant: the partition key carries the collection time
PkStamped(r) == r.resource_type \o <<"#">> \o r.account_id \o <<"#">> \o r.region
                    \o <<"#">> \o r.resource_id \o <<"#", r.timestamp>>

\* pk = f"{resource_type}#{account_id}#{region}#{resource_id}"
Pk(r) == r.resource_type \o <<"#">> \o r.account_id \o <<"#">> \o r.region
             \o <<"#">> \o r.resource_id
\* variant: one sort key for every collection time
SkFixed(r) == 0

\* sk = resource['timestamp']
Sk(r) == r.timestamp

\* the item built for one resource
Item(r) == [pk |-> Pk(r), sk |-> Sk(r), resource_type |-> r.resource_type,
            department |-> r.account_name, resource |-> r]

\* the primary key of the table: partition key and sort key
ItemKey(it) == <<it.pk, it.sk>>

\* variant: put_item adds the item beside the stored ones
put_item_append(tbl, it) == tbl (+) SetToBag({it})

\* batch.put_item: replaces the item stored under the same primary key
put_item(tbl, it) ==
    LET kept == {x \in BagToSet(tbl) : ItemKey(x) # ItemKey(it)}
    IN  [x \in kept |-> tbl[x]] (+) SetToBag({it})

\* the for loop of save_to_dynamodb over resources[1..n]: iteration n puts
\* its item into the table that the iterations before it left
RECURSIVE PutAll(_, _, _)
PutAll(tbl, resources, n) ==
    IF n = 0 THEN tbl
    ELSE CHOOSE after \in {put_item(before, Item(resources[n])) :
                               before \in {PutAll(tbl, resources, n - 1)}} : TRUE

\* the writes a loop over items has issued when the write of item `fault`
\* raises (fault = 0: none raises): every item up to the one that raises
WriteCalls(items, fault) == SubSeq(items, 1, IF fault = 0 THEN Len(items) ELSE fault)

\* save_to_dynamodb(resources) when the put of item `fault` raises
\* (fault = 0: no put raises): the exception leaves the loop and the function
save_to_dynamodb(tbl, resources, fault) ==
    LET items == [i \in DOMAIN resources |-> Item(resources[i])]
    IN  IF resources = <<>> THEN [table |-> tbl, raised |-> FALSE, calls |-> <<>>]
        ELSE IF fault = 0
        THEN [table |-> PutAll(tbl, resources, Len(resources)), raised |-> FALSE,
              calls |-> WriteCalls(items, 0)]
        ELSE [table |-> PutAll(tbl, resources, fault - 1), raised |-> TRUE,
              calls |-> WriteCalls(items, fault)]

----------------------------------------------------------------------------
(* Store writers on Azure Table Storage: save_to_table and save_findings *)

\* variant: the resource id is the RowKey as it is
ReplaceNone(str) == str

\* str.replace('/', '_')
Replace(str) == [i \in DOMAIN str |-> IF str[i] = "/" THEN "_" ELSE str[i]]

\* the entity save_to_table builds for one resource
Entity(r) ==
    [PartitionKey |-> r.account_id, RowKey |-> Replace(r.resource_id),
     resource_type |-> r.resource_type, account_name |-> r.account_name,
     region |-> r.region, timestamp |-> r.timestamp,
     estimated_monthly_cost |-> r.estimated_monthly_cost]

\* the key of an entity in its table
EntityKey(e) == <<e.PartitionKey, e.RowKey>>

\* table.upsert_entity: the entity replaces the one stored under its key
\* (every entity written here carries the same properties)
upsert_entity(tbl, e) ==
    LET kept == {x \in BagToSet(tbl) : EntityKey(x) # EntityKey(e)}
    IN  [x \in kept |-> tbl[x]] (+) SetToBag({e})

\* the for loop of a table writer over entities[1..n]
RECURSIVE UpsertAll(_, _, _)
UpsertAll(tbl, entities, n) ==
    IF n = 0 THEN tbl
    ELSE upsert_entity(UpsertAll(tbl, entities, n - 1), entities[n])

\* save_to_table(resources) when the upsert of item `fault` raises
save_to_table(tbl, url, resources, fault) ==
    LET entities == [i \in DOMAIN resources |-> Entity(resources[i])]
    IN  IF resources = <<>> \/ ~url THEN [table |-> tbl, raised |-> FALSE, calls |-> <<>>]
        ELSE IF fault = 0
        THEN [table |-> UpsertAll(tbl, entities, Len(entities)), raised |-> FALSE,
              calls |-> WriteCalls(entities, 0)]
        ELSE [table |-> UpsertAll(tbl, entities, fault - 1), raised |-> TRUE,
              calls |-> WriteCalls(entities, fault)]

\* AzurePolicyClient.subscription_id
subscription_id == <<"sub1">>

\* the entity save_findings builds for one finding
FindingEntity(f) ==
    [PartitionKey |-> subscription_id, RowKey |-> Replace(f.resource_id),
     policy_assignment |-> f.policy_assignment,
     policy_definition |-> f.policy_definition, timestamp |-> f.timestamp]

\* save_findings(findings) when the upsert of item `fault` raises
save_findings(tbl, findings, fault) ==
    LET entities == [i \in DOMAIN findings |-> FindingEntity(findings[i])]
    IN  IF findings = <<>> THEN [table |-> tbl, raised |-> FALSE, calls |-> <<>>]
        ELSE IF fault = 0
        THEN [table |-> UpsertAll(tbl, entities, Len(entities)), raised |-> FALSE,
              calls |-> WriteCalls(entities, 0)]
        ELSE [table |-> UpsertAll(tbl, entities, fault - 1), raised |-> TRUE,
              calls |-> WriteCalls(entities, fault)]

\* the finding fetch_non_compliant builds for the policy state of a resource
Finding(r) ==
    [resource_id |-> r.resource_id, policy_assignment |-> "assign",
     policy_definition |-> "def", timestamp |-> r.timestamp]

\* fetch_non_compliant: the loop over the policy states the query returns
fetch_non_compliant(states) == [i \in DOMAIN states |-> Finding(states[i])]

----------------------------------------------------------------------------
(* collect_account_inventory *)

RegionalTypes == <<"ec2", "rds", "lambda">>

\* the futures submitted by the loop over regions, in submission order
SubmittedTasks(regions) ==
    LET pairs == [i \in 1..(Len(regions) * Len(RegionalTypes)) |->
                    [region |-> regions[((i - 1) \div Len(RegionalTypes)) + 1],
                     type |-> RegionalTypes[((i - 1) % Len(RegionalTypes)) + 1]]]
    IN  SelectSeq(pairs, LAMBDA p : p.type \in resource_types)

\* an account future that was not submitted; roleErr: assume_role raised,
\* regionErr: get_regions raised,
\* regions: the local of that name, s3: what collect_s3_buckets returned,
\* describes and s3calls: calls of describe_regions and collect_s3_buckets
NoAcct == [st |-> "none", res |-> <<>>, futures |-> <<>>, roleErr |-> FALSE,
           regionErr |-> FALSE,
           regions |-> <<>>, s3 |-> <<>>, describes |-> 0, s3calls |-> 0]

\* variant: the buckets are collected inside the loop over the regions
S3CollectionsPerRegion(regions) == Len(regions)

\* collect_s3_buckets is called before the loop over the regions
S3Collections(regions) == 1

\* variant: a task whose collector failed is submitted again
TaskAfterRunResubmit(err) == IF err THEN "pending" ELSE "done"

\* a future whose collector has returned is done, whether the collector
\* logged an error or not; nothing submits it again
TaskAfterRun(err) == "done"

\* variant: the except clause re-raises after recording the failure
AccountFailureOutcomeReraise == "raised"

\* what the except clause of collect_account_inventory hands to the future:
\* the function returns [] after recording the failure
AccountFailureOutcome == "done"

\* variant: the except clause only logs
AccountFailureEntryDropped(a, err) == <<>>

\* the append of the except clause of collect_account_inventory
AccountFailureEntry(a, err) ==
    <<[department |-> a, account_id |-> AccountId[a], error |-> err]>>

\* the except clause of the as_completed loop of collect_account_inventory
TaskFailureEntry(a, f) == <<>>

\* the account task runs up to the submission of its futures, or up to the
\* except clause when assume_role or get_regions raises
AccountStart(a) ==
    /\ pc = "fanout"
    /\ acct[a].st = "pending"
    /\ \E failures \in 0..max_retries, clientOk \in BOOLEAN, describeOk \in BOOLEAN,
          n \in 0..MaxRes, located \in BOOLEAN :
        LET role == assume_role(failures)
            listed == get_regions(clientOk, describeOk)
            regions == listed.regions
            s3 == IF "s3" \in resource_types
                  THEN collect_s3_buckets(a, n, located, clock) ELSE <<>>
        IN  IF role.ok /\ ~listed.raised
            THEN /\ ("s3" \notin resource_types => n = 0 /\ ~located)
                 /\ (n = 0 => ~located)
                 /\ acct' = [acct EXCEPT ![a] =
                        [st |-> "collecting", res |-> list_extend(<<>>, s3),
                         futures |-> [i \in DOMAIN SubmittedTasks(regions) |->
                            [region |-> SubmittedTasks(regions)[i].region,
                             type |-> SubmittedTasks(regions)[i].type,
                             st |-> "pending", res |-> <<>>, err |-> FALSE,
                             runs |-> 0]],
                         roleErr |-> FALSE, regionErr |-> FALSE,
                         regions |-> regions, s3 |-> s3,
                         describes |-> 1,
                         s3calls |-> IF "s3" \in resource_types
                                     THEN S3Collections(regions) ELSE 0]]
                 /\ UNCHANGED failed_collections
            ELSE /\ ~describeOk /\ n = 0 /\ ~located
                 /\ (~role.ok => clientOk)
                 /\ acct' = [acct EXCEPT ![a] =
                        [NoAcct EXCEPT !.st = AccountFailureOutcome,
                                       !.roleErr = ~role.ok,
                                       !.regionErr = role.ok]]
                 /\ failed_collections' =
                        list_append(failed_collections,
                            AccountFailureEntry(a, IF role.ok THEN "NoRegionError"
                                                   ELSE "ClientError"))
    /\ UNCHANGED <<accounts, resource_types, excluded_regions, pc, clock,
                   all_resources, table, saveCalls, saveArg, saveFault, exitCode, summaryFailed>>
    /\ UNCHANGED <<writerVars, unitVars>>

\* one submitted (region, type) task runs its collector
TaskRun(a, i) ==
    /\ acct[a].st = "collecting"
    /\ i \in DOMAIN acct[a].futures
    /\ acct[a].futures[i].st = "pending"
    /\ \E n \in 0..MaxRes, err \in BOOLEAN :
        LET f == acct[a].futures[i]
        IN  acct' = [acct EXCEPT ![a].futures[i] =
                        [f EXCEPT !.st = TaskAfterRun(err), !.err = err, !.runs = @ + 1,
                                  !.res = collect_regional(f.type, a, f.region, n, clock)]]
    /\ UNCHANGED <<accounts, resource_types, excluded_regions, failed_collections,
                   pc, clock, all_resources, table, saveCalls, saveArg, saveFault,
                   exitCode, summaryFailed>>
    /\ UNCHANGED <<writerVars, unitVars>>

\* one iteration of the as_completed loop of collect_account_inventory
TaskMerge(a, i) ==
    /\ acct[a].st = "collecting"
    /\ i \in DOMAIN acct[a].futures
    /\ acct[a].futures[i].st \in {"done", "raised"}
    /\ IF acct[a].futures[i].st = "done"
       THEN /\ acct' = [acct EXCEPT ![a].futures[i].st = "merged",
                                    ![a].res = list_extend(@, acct[a].futures[i].res)]
            /\ UNCHANGED failed_collections
       ELSE /\ acct' = [acct EXCEPT ![a].futures[i].st = "merged"]
            /\ failed_collections' =
                   list_append(failed_collections, TaskFailureEntry(a, acct[a].futures[i]))
    /\ UNCHANGED <<accounts, resource_types, excluded_regions,
                   pc, clock, all_resources, table, saveCalls, saveArg, saveFault,
                   exitCode, summaryFailed>>
    /\ UNCHANGED <<writerVars, unitVars>>

\* variant: the loop over the futures ends at the first result
TasksDrainedFirst(a) ==
    acct[a].futures # <<>> => \E i \in DOMAIN acct[a].futures : acct[a].futures[i].st = "merged"

\* the executor of collect_account_inventory is left once it has no future
\* that has not completed and been consumed
TasksDrained(a) == \A i \in DOMAIN acct[a].futures : acct[a].futures[i].st = "merged"

\* the with block is left and all_resources is returned
AccountReturn(a) ==
    /\ acct[a].st = "collecting"
    /\ TasksDrained(a)
    /\ acct' = [acct EXCEPT ![a].st = "done"]
    /\ UNCHANGED <<accounts, resource_types, excluded_regions, failed_collections,
                   pc, clock, all_resources, table, saveCalls, saveArg, saveFault,
                   exitCode, summaryFailed>>
    /\ UNCHANGED <<writerVars, unitVars>>

----------------------------------------------------------------------------
(* collect_inventory and main *)

\* collect_inventory is called: the guard on self.accounts, the reset of
\* failed_collections and the submission of one future per account
StartRun ==
    /\ pc = "idle"
    /\ clock' = clock + 1
    /\ exitCode' = "none"
    /\ summaryFailed' = 0
    /\ saveCalls' = 0
    /\ saveArg' = <<>>
    /\ saveFault' = 0
    /\ IF accounts = {}
       THEN /\ pc' = "returned"
            /\ all_resources' = <<>>
            /\ UNCHANGED <<failed_collections, acct>>
       ELSE /\ pc' = "fanout"
            /\ all_resources' = <<>>
            /\ failed_collections' = <<>>
            /\ acct' = [a \in AccountNames |->
                          IF a \in accounts THEN [NoAcct EXCEPT !.st = "pending"]
                          ELSE NoAcct]
    /\ UNCHANGED <<accounts, resource_types, excluded_regions, table>>
    /\ UNCHANGED <<writerVars, unitVars>>

\* one iteration of the as_completed loop of collect_inventory
AccountMerge(a) ==
    /\ pc = "fanout"
    /\ acct[a].st \in {"done", "raised"}
    /\ IF acct[a].st = "done"
       THEN /\ all_resources' = list_extend(all_resources, acct[a].res)
            /\ UNCHANGED failed_collections
       ELSE /\ failed_collections' = list_append(failed_collections,
                  <<[department |-> a, account_id |-> AccountId[a], error |-> "raised"]>>)
            /\ UNCHANGED all_resources
    /\ acct' = [acct EXCEPT ![a].st = "merged"]
    /\ UNCHANGED <<accounts, resource_types, excluded_regions,
                   pc, clock, table, saveCalls, saveArg, saveFault, exitCode, summaryFailed>>
    /\ UNCHANGED <<writerVars, unitVars>>

\* variant: the loop over the account futures ends at the first result
AccountsDrainedFirst == \E a \in accounts : acct[a].st = "merged"

\* the executor of collect_inventory is left once every account future has
\* completed and been consumed
AccountsDrained == \A a \in accounts : acct[a].st = "merged"

\* save_to_dynamodb(all_resources), the summary log and the return
SaveAndReturn ==
    /\ pc = "fanout"
    /\ AccountsDrained
    /\ \E fault \in 0..Len(all_resources) :
        LET out == save_to_dynamodb(table, all_resources, fault)
        IN  /\ table' = out.table
            /\ saveFault' = fault
            /\ pc' = IF out.raised THEN "raised" ELSE "returned"
    /\ saveCalls' = saveCalls + 1
    /\ saveArg' = all_resources
    /\ UNCHANGED <<accounts, resource_types, excluded_regions, failed_collections,
                   clock, all_resources, acct, exitCode, summaryFailed>>
    /\ UNCHANGED <<writerVars, unitVars>>

\* variant: main reports failed collections through its exit status
ExitStatusFailures(raised, failures) == IF raised \/ failures # <<>> THEN 1 ELSE 0

\* the exit status of main: an exception that leaves main ends the process
\* with status 1, a normal return with status 0
ExitStatus(raised, failures) == IF raised THEN 1 ELSE 0

\* main after collect_inventory: the summary is printed and the process
\* ends, with status 0 unless the exception of the store left main
MainExit ==
    /\ pc \in {"returned", "raised"}
    /\ exitCode = "none"
    /\ exitCode' = ExitStatus(pc = "raised", failed_collections)
    /\ summaryFailed' = IF pc = "returned" THEN Len(failed_collections) ELSE 0
    /\ pc' = "exited"
    /\ UNCHANGED <<accounts, resource_types, excluded_regions, failed_collections,
                   clock, all_resources, acct, table, saveCalls, saveArg, saveFault>>
    /\ UNCHANGED <<writerVars, unitVars>>

----------------------------------------------------------------------------
(* Specification of the collection run *)

WriterIdle ==
    /\ table_url = FALSE
    /\ wWriter = "none"
    /\ wList = <<>>
    /\ wStore = EmptyBag
    /\ wHist = <<>>

RetryIdle == retry = [policy |-> "none"]
PoolIdle == pool = [accounts |-> <<>>]
GraphIdle == graph = [st |-> "none"]
SqlIdle == sql = [st |-> "none"]
ConvIdle == conv = [st |-> "none"]
CostIdle == cost = [st |-> "none"]

\* no call through a retry policy, no pool, no Resource Graph query, no SQL
\* listing, no item conversion and no cost update
UnitIdle ==
    /\ RetryIdle
    /\ PoolIdle
    /\ GraphIdle
    /\ SqlIdle
    /\ ConvIdle
    /\ CostIdle

Init ==
    /\ accounts \in SUBSET AccountNames
    /\ \/ /\ resource_types \in ResourceTypeChoices
          /\ excluded_regions \in ExcludedChoices
       \/ /\ resource_types = AllRegions.resource_types
          /\ excluded_regions = AllRegions.excluded_regions
    /\ failed_collections = <<>>
    /\ pc = "idle"
    /\ clock = 0
    /\ all_resources = <<>>
    /\ acct = [a \in AccountNames |-> NoAcct]
    /\ table = EmptyBag
    /\ saveCalls = 0
    /\ saveArg = <<>>
    /\ saveFault = 0
    /\ exitCode = "none"
    /\ summaryFailed = 0
    /\ WriterIdle
    /\ UnitIdle

Next ==
    \/ StartRun
    \/ \E a \in AccountNames : AccountStart(a)
    \/ \E a \in AccountNames : \E i \in DOMAIN acct[a].futures : TaskRun(a, i)
    \/ \E a \in AccountNames : \E i \in DOMAIN acct[a].futures : TaskMerge(a, i)
    \/ \E a \in AccountNames : AccountReturn(a)
    \/ \E a \in AccountNames : AccountMerge(a)
    \/ SaveAndReturn
    \/ MainExit

Spec == Init /\ [][Next]_vars

\* the threads of both executors and the calling thread are scheduled:
\* as long as some step of the run can be taken, one is taken
FairSpec == Spec /\ WF_vars(Next)

----------------------------------------------------------------------------
(* Properties of the collection run *)

\* the entries of failed_collections that name account a
FailuresOf(a) == SelectSeq(failed_collections, LAMBDA f : f.department = a)

\* the resources of account a in a list
ResourcesOf(a, list) == SelectSeq(list, LAMBDA r : r.account_name = a)

\* the account task of a has returned
AccountFinished(a) == acct[a].st \in {"done", "merged"}

\* the futures of account a whose collector hit an error
FailedTasks(a) == {i \in DOMAIN acct[a].futures :
                     acct[a].futures[i].st # "pending" /\ acct[a].futures[i].err}

\* collect_inventory has ended, by return or by the exception of the store
RunEnded == pc \in {"returned", "raised", "exited"}

\* C1: when exactly one of the (region, type) tasks of an account fails, the
\* account's aggregate holds the output of every other task and exactly one
\* CollectionFailure for that account is recorded in failed_collections.
PartialFailureIsolation ==
    \A a \in accounts :
        (AccountFinished(a) /\ Cardinality(FailedTasks(a)) = 1) =>
            /\ \A i \in DOMAIN acct[a].futures \ FailedTasks(a) :
                   SeqToBag(acct[a].futures[i].res) \sqsubseteq SeqToBag(acct[a].res)
            /\ Len(FailuresOf(a)) = 1

\* C2 as stated: when collect_inventory returns for a non-empty account set,
\* every account has a resource in the result or an entry in
\* failed_collections.
EveryAccountResourceOrFailure ==
    (pc = "returned" /\ accounts # {}) =>
        \A a \in accounts :
            ResourcesOf(a, all_resources) # <<>> \/ FailuresOf(a) # <<>>

\* C2 amended: when collect_inventory returns for a non-empty account set,
\* every account task has completed and been consumed, and the account has
\* either its returned list (possibly empty) in the result or an entry in
\* failed_collections.
EveryAccountCompleted ==
    (pc = "returned" /\ accounts # {}) =>
        /\ Cardinality({a \in accounts : acct[a].st = "merged"}) = Cardinality(accounts)
        /\ \A a \in accounts :
              \/ FailuresOf(a) # <<>>
              \/ /\ acct[a].describes = 1
                 /\ SeqToBag(ResourcesOf(a, all_resources)) = SeqToBag(acct[a].res)

\* a run returned in which one account failed and the other one delivered
WitnessEveryAccountCompleted ==
    /\ pc = "returned"
    /\ accounts = AccountNames
    /\ \E a, b \in accounts :
          /\ FailuresOf(a) # <<>>
          /\ ResourcesOf(b, all_resources) # <<>>

\* C3: an account whose role assumption failed enumerates no region, lists
\* no bucket, submits no task, contributes no resource and has exactly one
\* entry in failed_collections, also after its future has been consumed.
RoleFailureShortCircuits ==
    \A a \in accounts :
        acct[a].roleErr =>
            /\ acct[a].describes = 0
            /\ acct[a].s3calls = 0
            /\ acct[a].futures = <<>>
            /\ acct[a].res = <<>>
            /\ ResourcesOf(a, all_resources) = <<>>
            /\ Len(FailuresOf(a)) = 1

\* the future of an account whose role assumption failed has been consumed
WitnessRoleFailureShortCircuits ==
    \E a \in accounts : acct[a].roleErr /\ acct[a].st = "merged" /\ RunEnded

\* the scenario of C4: two accounts, one unreachable, the other one returns
\* one resource, and no put of the store raises
OneFailsOneDelivers ==
    /\ accounts = AccountNames
    /\ \E a, b \in accounts :
          /\ a # b
          /\ acct[a].roleErr
          /\ ~acct[b].roleErr /\ AccountFinished(b) /\ Len(acct[b].res) = 1
    /\ saveFault = 0

\* C4: in that scenario collect_inventory returns exactly one resource and
\* one failure entry, naming the unreachable account, and main ends with
\* exit code 0 after reporting one failed collection.
ScenarioOneFailsOneDelivers ==
    OneFailsOneDelivers =>
        /\ pc # "raised"
        /\ (pc \in {"returned", "exited"} =>
               /\ Len(all_resources) = 1
               /\ Len(failed_collections) = 1
               /\ acct[failed_collections[1].department].roleErr
               /\ ~acct[all_resources[1].account_name].roleErr)
        /\ (pc = "exited" => exitCode = 0 /\ summaryFailed = 1)

\* main has ended in the scenario of C4
WitnessScenarioOneFailsOneDelivers == OneFailsOneDelivers /\ pc = "exited"

\* C5: an account task returns only after each of its (region, type) tasks
\* has completed; the store is written and collect_inventory ends only after
\* every account task has completed; and the run of each process ends, with
\* no task left pending.
DrainBeforeReturn ==
    /\ [](\A a \in accounts :
             AccountFinished(a) =>
                 \A i \in DOMAIN acct[a].futures : acct[a].futures[i].st = "merged")
    /\ []((saveCalls > 0 \/ (RunEnded /\ accounts # {})) =>
             \A a \in accounts : acct[a].st = "merged")
    /\ <>RunEnded

\* a run ended whose accounts had submitted tasks
WitnessDrainBeforeReturn ==
    /\ RunEnded
    /\ accounts = AccountNames
    /\ \A a \in accounts : Len(acct[a].futures) = 2

\* the lists returned by the account tasks, as one multiset
RECURSIVE Returned(_)
Returned(as) ==
    IF as = {} THEN EmptyBag
    ELSE LET a == CHOOSE x \in as : TRUE
         IN  SeqToBag(acct[a].res) (+) Returned(as \ {a})

\* C6: a run of the account fan-out invokes save_to_dynamodb exactly once,
\* not before every account result is merged, with the merged list of all
\* accounts as argument.
StoreWriterOnce ==
    /\ saveCalls <= 1
    /\ (pc = "fanout" => saveCalls = 0)
    /\ (RunEnded /\ accounts # {} =>
           /\ saveCalls = 1
           /\ saveArg = all_resources
           /\ SeqToBag(saveArg) = Returned(accounts))

\* the writer was invoked with resources of both accounts
WitnessStoreWriterOnce ==
    /\ saveCalls = 1
    /\ \A a \in AccountNames : ResourcesOf(a, saveArg) # <<>>

----------------------------------------------------------------------------
(* Specification of the store writers *)

\* resource identifiers handed to the writers
WriterIds == {<<"vm", "/", "1">>, <<"vm", "_", "1">>}

\* the normalized resources with a cost estimate among costs
WriterResources(costs) ==
    {[resource_type |-> <<"vm">>, resource_id |-> id, account_id |-> subscription_id,
      account_name |-> "dev", region |-> <<"eastus">>, timestamp |-> t,
      estimated_monthly_cost |-> c] : id \in WriterIds, t \in 1..MaxStamp, c \in costs}

\* the lists of at most n resources with a cost estimate among costs
ListsUpTo(n, costs) == UNION {[1..k -> WriterResources(costs)] : k \in 0..n}

\* the orchestration is not running
OrchIdle ==
    /\ accounts = {}
    /\ resource_types = {}
    /\ excluded_regions = {}
    /\ failed_collections = <<>>
    /\ pc = "exited"
    /\ clock = 0
    /\ all_resources = <<>>
    /\ acct = [a \in AccountNames |-> NoAcct]
    /\ table = EmptyBag
    /\ saveCalls = 0
    /\ saveArg = <<>>
    /\ saveFault = 0
    /\ exitCode = "none"
    /\ summaryFailed = 0

\* save_to_dynamodb, save_to_table or save_findings applied to a list
Write(writer, store, url, list, fault) ==
    CASE writer = "dynamodb" -> save_to_dynamodb(store, list, fault)
      [] writer = "table" -> save_to_table(store, url, list, fault)
      [] writer = "findings" ->
            save_findings(store, fetch_non_compliant(list), fault)

\* the key under which a writer stores the record of a resource
KeyOf(writer, r) ==
    CASE writer = "dynamodb" -> ItemKey(Item(r))
      [] writer = "table" -> EntityKey(Entity(r))
      [] writer = "findings" -> EntityKey(FindingEntity(Finding(r)))

\* one of the three writers is given a list of resources; its store holds
\* what an earlier call left in it, possibly with another cost estimate
WriterInit ==
    /\ OrchIdle
    /\ UnitIdle
    /\ wWriter \in {"dynamodb", "table", "findings"}
    /\ table_url \in BOOLEAN
    /\ (wWriter # "table" => table_url)
    /\ wList \in ListsUpTo(MaxLen, {0})
    /\ \E prior \in ListsUpTo(1, {0, 1}) : wStore = Write(wWriter, EmptyBag, TRUE, prior, 0).table
    /\ wHist = <<>>

\* the record of one writer call: the index of the item whose write raised
\* (0: none), the keys of the list items, the store the call found, the
\* store it left and the writes it issued
Call(before, out, fault, keys) ==
    [fault |-> IF out.raised THEN fault ELSE 0,
     keys |-> keys, before |-> before, after |-> out.table, calls |-> out.calls]

\* one call of the writer with wList, in which the write of item `fault`
\* raises (0: none)
WriterCall(writer) ==
    /\ wWriter = writer
    /\ Len(wHist) < MaxWrites
    /\ \E fault \in 0..Len(wList) :
        LET out == Write(writer, wStore, table_url, wList, fault)
        IN  /\ (fault # 0 => out.raised)
            /\ wStore' = out.table
            /\ wHist' = Append(wHist, Call(wStore, out, fault,
                            [i \in DOMAIN wList |-> KeyOf(writer, wList[i])]))
    /\ UNCHANGED <<table_url, wWriter, wList>>
    /\ UNCHANGED <<orchVars, unitVars>>

\* AWSInventoryCollector.save_to_dynamodb(wList)
WriteDynamo == WriterCall("dynamodb")

\* AzureInventoryCollector.save_to_table(wList)
WriteTable == WriterCall("table")

\* AzurePolicyClient.save_findings of the findings on the resources of wList
WriteFindings == WriterCall("findings")

WriterNext == WriteDynamo \/ WriteTable \/ WriteFindings

WriterSpec == WriterInit /\ [][WriterNext]_vars

----------------------------------------------------------------------------
(* Specification of successive collection runs of one account *)

RerunInit ==
    /\ Init
    /\ accounts = {"dev"}
    /\ resource_types \in {{"ec2", "rds"}, {"s3"}}
    /\ excluded_regions = {"eu-west-1"}

\* the next scheduled run of main: a new collector object loads the same
\* configuration and writes to the same table
NextProcess ==
    /\ pc = "exited"
    /\ clock < MaxRuns
    /\ pc' = "idle"
    /\ failed_collections' = <<>>
    /\ UNCHANGED <<accounts, resource_types, excluded_regions, clock, all_resources,
                   acct, table, saveCalls, saveArg, saveFault, exitCode, summaryFailed>>
    /\ UNCHANGED <<writerVars, unitVars>>

RerunNext == Next \/ NextProcess

RerunSpec == RerunInit /\ [][RerunNext]_vars

----------------------------------------------------------------------------
(* Properties of the store writers *)

\* two resources name the same logical resource
SameIdentity(r1, r2) ==
    /\ r1.resource_type = r2.resource_type
    /\ r1.account_id = r2.account_id
    /\ r1.region = r2.region
    /\ r1.resource_id = r2.resource_id

\* the key of a stored record
StoredKey(x) == IF wWriter = "dynamodb" THEN ItemKey(x) ELSE EntityKey(x)

\* the keys under which a store holds a record
StoredKeys(store) == {StoredKey(x) : x \in BagToSet(store)}

\* C7: a writer call that follows a call with the same list, both without
\* a failing write, leaves the store as the first call left it.
StoreWriterIdempotent ==
    \A i \in 1..(Len(wHist) - 1) :
        (wHist[i].fault = 0 /\ wHist[i + 1].fault = 0) =>
            wHist[i + 1].after = wHist[i].after

\* a list of two resources with different keys was written twice by the
\* DynamoDB writer, the first call replacing a record the table held
WitnessStoreWriterIdempotent ==
    /\ Len(wHist) = 2
    /\ wWriter = "dynamodb"
    /\ wHist[1].fault = 0 /\ wHist[2].fault = 0
    /\ Len(wList) = 2
    /\ wHist[1].keys[1] # wHist[1].keys[2]
    /\ \E x \in BagToSet(wHist[1].before) :
          ItemKey(x) = wHist[1].keys[1] /\ x \notin BagToSet(wHist[1].after)
    /\ BagCardinality(wHist[2].after) = 2

ItemFailureIsolated ==
    \A h \in Range(wHist) :
        h.fault # 0 =>
            \A j \in DOMAIN wList \ {h.fault} : h.keys[j] \in StoredKeys(h.after)

\* the RowKey of a resource id: every '/' of it is a '_'
IsRowKeyOf(key, id) ==
    /\ Len(key) = Len(id)
    /\ \A j \in DOMAIN id : key[j] = IF id[j] = "/" THEN "_" ELSE id[j]

\* C22: save_findings issues its upserts in the order of the findings,
\* each under PartitionKey = subscription id and RowKey = the resource id
\* with '/' replaced by '_'; a call that returns has issued exactly one
\* upsert per finding, and none (the store is untouched) for an empty list;
\* fetch_non_compliant returns one finding per policy state, in order.
FindingsUpsertedInOrder ==
    wWriter = "findings" =>
        /\ Len(fetch_non_compliant(wList)) = Len(wList)
        /\ \A i \in DOMAIN wList :
              fetch_non_compliant(wList)[i].resource_id = wList[i].resource_id
        /\ \A h \in Range(wHist) :
              /\ Len(h.calls) <= Len(wList)
              /\ h.fault = 0 => Len(h.calls) = Len(wList)
              /\ wList = <<>> => h.calls = <<>> /\ h.after = h.before
              /\ \A i \in DOMAIN h.calls :
                    /\ h.calls[i].PartitionKey = subscription_id
                    /\ IsRowKeyOf(h.calls[i].RowKey, wList[i].resource_id)
                    /\ h.calls[i].timestamp = wList[i].timestamp

\* save_findings returned after the upserts of two findings, the first on
\* a resource id with a '/' and the second collected at another time
WitnessFindingsUpsertedInOrder ==
    /\ wWriter = "findings"
    /\ Len(wHist) >= 1
    /\ wHist[1].fault = 0
    /\ Len(wHist[1].calls) = 2
    /\ wList[1].resource_id = <<"vm", "/", "1">>
    /\ wList[1].timestamp # wList[2].timestamp

\* save_findings was called with no finding
WitnessNoFindings == wWriter = "findings" /\ wList = <<>> /\ Len(wHist) >= 1

----------------------------------------------------------------------------
(* Retry policies at the Cloud API boundary *)

\* what one call of the wrapped Cloud API does: it answers, or it raises a
\* throttling error (HTTP 429/503), another error of the service (access
\* denied, bad request) or an error that is not an error of the service
\* (no connection)
ErrorKinds == {"throttling", "permanent", "other"}

\* botocore reports the errors of the service as ClientError
IsClientError(kind) == kind \in {"throttling", "permanent"}

\* the calls that go through a retry policy
Policies == {"assume_role", "_fetch_cost", "_execute", "_get_summary"}

\* range(5) of _backoff
backoff_attempts == 5
\* stop_after_attempt(5) of _execute
execute_attempts == 5
\* stop_after_attempt(4) of _get_summary
summary_attempts == 4

\* the number of attempts a policy allows
Attempts(policy) ==
    CASE policy = "assume_role" -> max_retries
      [] policy = "_fetch_cost" -> backoff_attempts
      [] policy = "_execute" -> execute_attempts
      [] policy = "_get_summary" -> summary_attempts

\* the errors a policy catches: `except ClientError` in assume_role,
\* `except Exception` in _backoff, every exception under tenacity's retry
Retried(policy, kind) ==
    IF policy = "assume_role" THEN IsClientError(kind) ELSE TRUE

\* variant: wait_time does not depend on the attempt
wait_time_fixed(attempt) == 2

\* wait_time of assume_role; attempt counts from 0
wait_time(attempt) == (attempt + 1) * 2

\* variant: delay is left as it is
next_delay_same(delay) == delay

\* delay *= 2 of _backoff
next_delay(delay) == delay * 2

\* delay of _backoff when attempt `attempt` (counted from 0) has failed
RECURSIVE backoff_delay(_)
backoff_delay(attempt) ==
    IF attempt = 0 THEN 1 ELSE next_delay(backoff_delay(attempt - 1))

\* tenacity's wait_exponential(multiplier, min, max) after attempt_number
\* attempts: multiplier * 2^(attempt_number - 1), kept within [min, max]
wait_exponential(multiplier, min, max, attempt_number) ==
    LET result == multiplier * 2^(attempt_number - 1)
        capped == IF result < max THEN result ELSE max
    IN  IF capped > min THEN capped ELSE min

\* the sleep of a policy after its n-th attempt has failed
Wait(policy, n) ==
    CASE policy = "assume_role" -> wait_time(n - 1)
      [] policy = "_fetch_cost" -> backoff_delay(n - 1)
      [] policy = "_execute" -> wait_exponential(2, 1, 32, n)
      [] policy = "_get_summary" -> wait_exponential(1, 2, 30, n)

\* what the caller sees when a policy gives up on error `kind`: the bare
\* raise of assume_role and _backoff re-raises it, tenacity raises RetryError
Surfaced(policy, kind) ==
    IF policy \in {"assume_role", "_fetch_cost"} THEN kind ELSE "RetryError"

\* one attempt of the wrapped call and what the policy does with its outcome
Attempt(policy) ==
    /\ retry.policy = policy
    /\ retry.st = "calling"
    /\ \E outcome \in {"ok"} \cup ErrorKinds :
        LET n == retry.calls + 1
        IN  IF outcome = "ok"
            THEN retry' = [retry EXCEPT !.calls = n, !.st = "returned"]
            ELSE IF ~Retried(policy, outcome)
            THEN retry' = [retry EXCEPT !.calls = n, !.st = "raised",
                                        !.errors = Append(@, outcome),
                                        !.raised = outcome]
            ELSE IF n < Attempts(policy)
            THEN retry' = [retry EXCEPT !.calls = n,
                                        !.errors = Append(@, outcome),
                                        !.waits = Append(@, Wait(policy, n))]
            ELSE retry' = [retry EXCEPT !.calls = n, !.st = "raised",
                                        !.errors = Append(@, outcome),
                                        !.raised = Surfaced(policy, outcome)]
    /\ UNCHANGED <<orchVars, writerVars, pool, graph, sql, conv, cost>>

\* one pass of the for loop of assume_role
AssumeRoleAttempt == Attempt("assume_role")

\* one pass of the for loop of _backoff around _fetch_cost
BackoffAttempt == Attempt("_fetch_cost")

\* one attempt of _execute under its retry decorator
ExecuteAttempt == Attempt("_execute")

\* one attempt of _get_summary under its retry decorator
GetSummaryAttempt == Attempt("_get_summary")

\* a call through one of the policies begins
RetryInit ==
    /\ OrchIdle
    /\ WriterIdle
    /\ PoolIdle /\ GraphIdle /\ SqlIdle /\ ConvIdle /\ CostIdle
    /\ \E policy \in Policies :
        retry = [policy |-> policy, st |-> "calling", calls |-> 0,
                 errors |-> <<>>, waits |-> <<>>, raised |-> "none"]

RetryNext == AssumeRoleAttempt \/ BackoffAttempt \/ ExecuteAttempt \/ GetSummaryAttempt

RetrySpec == RetryInit /\ [][RetryNext]_vars

----------------------------------------------------------------------------
(* Properties of the retry policies *)

\* s is the beginning of t
IsPrefix(s, t) == Len(s) <= Len(t) /\ \A i \in DOMAIN s : s[i] = t[i]

\* what holds of a call through a policy with at most cap attempts: the
\* number of calls, the return at the first success, one wait after every
\* failure but the last allowed one, and the error after the last one
BoundedRetry(cap) ==
    /\ retry.calls <= cap
    /\ retry.st = "returned" =>
          /\ retry.calls = Len(retry.errors) + 1
          /\ Len(retry.waits) = Len(retry.errors)
    /\ retry.st = "calling" =>
          /\ retry.calls = Len(retry.errors)
          /\ Len(retry.waits) = Len(retry.errors)
          /\ retry.calls < cap
    /\ retry.st = "raised" =>
          /\ retry.calls = Len(retry.errors)
          /\ Len(retry.waits) = Len(retry.errors) - 1
          /\ retry.raised # "none"
    /\ Len(retry.errors) = cap => retry.st = "raised"

\* C11: one invocation of assume_role calls STS at most 3 times, returns at
\* the first success, waits 2s then 4s between failed attempts and raises
\* the error after the 3rd failure without a further wait; the result and
\* the number of STS calls are those the account task relies on.
AssumeRoleBoundedRetry ==
    retry.policy = "assume_role" =>
        /\ BoundedRetry(3)
        /\ IsPrefix(retry.waits, <<2, 4>>)
        /\ (retry.st = "raised" => retry.raised = retry.errors[Len(retry.errors)])
        /\ (retry.st # "calling" /\ \A i \in DOMAIN retry.errors : IsClientError(retry.errors[i])) =>
              /\ assume_role(Len(retry.errors)).ok = (retry.st = "returned")
              /\ assume_role(Len(retry.errors)).sts = retry.calls

\* STS failed three times in a row and assume_role raised
WitnessAssumeRoleBoundedRetry ==
    /\ retry.policy = "assume_role"
    /\ retry.st = "raised"
    /\ retry.calls = 3
    /\ retry.waits = <<2, 4>>

\* a sequence of waits never decreases, and each wait is the one before it
\* or its double
Doubling(w) == \A i \in 1..(Len(w) - 1) : w[i + 1] \in {w[i], 2 * w[i]}

\* C12: a call wrapped by _backoff or by the retry decorators is attempted
\* at most 5 times (4 for _get_summary), returns at the first success, waits
\* a doubling delay between attempts (1, 2, 4, 8 for _backoff) and surfaces
\* an error after the last allowed attempt has failed.
TransientRetryCap ==
    /\ retry.policy = "_fetch_cost" =>
          /\ BoundedRetry(5)
          /\ IsPrefix(retry.waits, <<1, 2, 4, 8>>)
    /\ retry.policy = "_execute" =>
          /\ BoundedRetry(5)
          /\ Doubling(retry.waits)
          /\ (Len(retry.waits) = 4 => retry.waits[4] = 8 * retry.waits[1])
    /\ retry.policy = "_get_summary" =>
          /\ BoundedRetry(4)
          /\ Doubling(retry.waits)
          /\ (Len(retry.waits) = 3 => retry.waits[3] > retry.waits[1])

\* the cost fetch failed five times and the fifth error was raised
WitnessTransientRetryCap ==
    /\ retry.policy = "_fetch_cost"
    /\ retry.st = "raised"
    /\ retry.calls = 5
    /\ retry.waits = <<1, 2, 4, 8>>

\* C13: an error that is not a throttling error ends the call at once: it is
\* the last error of the call, it is raised, and no wait follows it.
OnlyThrottlingRetried ==
    \A k \in DOMAIN retry.errors :
        retry.errors[k] # "throttling" =>
            /\ k = Len(retry.errors)
            /\ retry.st = "raised"
            /\ Len(retry.waits) = k - 1

----------------------------------------------------------------------------
(* The two nested thread pools of a run *)

\* ThreadPoolExecutor(max_workers=5) of collect_inventory
account_workers == 5
\* ThreadPoolExecutor(max_workers=10) of collect_account_inventory
task_workers == 10

\* variant: the executor starts a thread for every submitted task
HasFreeWorkerUnbounded(running, max_workers) == TRUE

\* a ThreadPoolExecutor runs a queued task only on one of its max_workers
\* threads: a task leaves the queue when fewer than max_workers are running
HasFreeWorker(running, max_workers) == running < max_workers

\* the account tasks that a worker of the outer pool is executing
RunningAccounts == {i \in DOMAIN pool.accounts : pool.accounts[i].st = "running"}

\* the (region, type) tasks that the workers of the inner pools are executing
RECURSIVE RunningTasks(_)
RunningTasks(n) ==
    IF n = 0 THEN 0 ELSE pool.accounts[n].running + RunningTasks(n - 1)

\* a run over nA accounts, each of which will submit nT (region, type)
\* tasks: collect_inventory has submitted the account tasks
PoolInit ==
    /\ OrchIdle
    /\ WriterIdle
    /\ RetryIdle /\ GraphIdle /\ SqlIdle /\ ConvIdle /\ CostIdle
    /\ \E nA \in 0..MaxPoolAccounts, nT \in 0..MaxPoolTasks :
        /\ nA * nT <= MaxPoolLoad
        /\ pool = [accounts |-> [i \in 1..nA |->
                        [st |-> "queued", tasks |-> nT, queued |-> 0, running |-> 0]]]

\* a worker of the outer pool takes the oldest queued account task, which
\* submits its (region, type) tasks to its own pool
AccountTaskStart(i) ==
    /\ i \in DOMAIN pool.accounts
    /\ pool.accounts[i].st = "queued"
    /\ \A j \in 1..(i - 1) : pool.accounts[j].st # "queued"
    /\ HasFreeWorker(Cardinality(RunningAccounts), account_workers)
    /\ pool' = [pool EXCEPT !.accounts[i].st = "running",
                            !.accounts[i].queued = pool.accounts[i].tasks]
    /\ UNCHANGED <<orchVars, writerVars, retry, graph, sql, conv, cost>>

\* a worker of the pool of account task i takes a queued (region, type) task
CollectorTaskStart(i) ==
    /\ i \in DOMAIN pool.accounts
    /\ pool.accounts[i].st = "running"
    /\ pool.accounts[i].queued > 0
    /\ HasFreeWorker(pool.accounts[i].running, task_workers)
    /\ pool' = [pool EXCEPT !.accounts[i].queued = @ - 1,
                            !.accounts[i].running = @ + 1]
    /\ UNCHANGED <<orchVars, writerVars, retry, graph, sql, conv, cost>>

\* a collector returns and its worker is free again
CollectorTaskEnd(i) ==
    /\ i \in DOMAIN pool.accounts
    /\ pool.accounts[i].st = "running"
    /\ pool.accounts[i].running > 0
    /\ pool' = [pool EXCEPT !.accounts[i].running = @ - 1]
    /\ UNCHANGED <<orchVars, writerVars, retry, graph, sql, conv, cost>>

\* account task i has consumed all its futures and returns
AccountTaskEnd(i) ==
    /\ i \in DOMAIN pool.accounts
    /\ pool.accounts[i].st = "running"
    /\ pool.accounts[i].queued = 0
    /\ pool.accounts[i].running = 0
    /\ pool' = [pool EXCEPT !.accounts[i].st = "done"]
    /\ UNCHANGED <<orchVars, writerVars, retry, graph, sql, conv, cost>>

PoolNext ==
    \/ \E i \in 1..MaxPoolAccounts : AccountTaskStart(i)
    \/ \E i \in 1..MaxPoolAccounts : CollectorTaskStart(i)
    \/ \E i \in 1..MaxPoolAccounts : CollectorTaskEnd(i)
    \/ \E i \in 1..MaxPoolAccounts : AccountTaskEnd(i)

PoolSpec == PoolInit /\ [][PoolNext]_vars

\* C14: at most 5 account tasks are executing, at most 10 (region, type)
\* tasks are executing within each account task and at most 50 overall,
\* whatever the numbers of accounts and tasks; the other tasks are queued.
BoundedConcurrency ==
    /\ Cardinality(RunningAccounts) <= 5
    /\ \A i \in DOMAIN pool.accounts :
          /\ pool.accounts[i].running <= 10
          /\ pool.accounts[i].st # "running" => pool.accounts[i].running = 0
          /\ pool.accounts[i].st = "running" =>
                pool.accounts[i].queued + pool.accounts[i].running <= pool.accounts[i].tasks
    /\ RunningTasks(Len(pool.accounts)) <= 50

\* ten (region, type) tasks of an account are executing and one more waits
WitnessBoundedConcurrency ==
    \E i \in DOMAIN pool.accounts :
        pool.accounts[i].running = 10 /\ pool.accounts[i].queued > 0

\* five account tasks are executing and one more waits
AccountPoolSaturated ==
    /\ Cardinality(RunningAccounts) = 5
    /\ \E i \in DOMAIN pool.accounts : pool.accounts[i].st = "queued"

----------------------------------------------------------------------------
(* Properties of the shared lists, of the merge and of the submission *)

\* the accounts whose task has run up to its return or its failure
Started(a) == acct[a].st \in {"collecting", "done", "raised", "merged"}

\* the failure entries a run owes: one for every account whose role
\* assumption or region enumeration raised
RECURSIVE OwedFailures(_)
OwedFailures(as) ==
    IF as = {} THEN EmptyBag
    ELSE LET a == CHOOSE x \in as : TRUE
         IN  (IF acct[a].roleErr THEN SeqToBag(AccountFailureEntry(a, "ClientError"))
              ELSE IF acct[a].regionErr
              THEN SeqToBag(AccountFailureEntry(a, "NoRegionError"))
              ELSE EmptyBag) (+) OwedFailures(as \ {a})

RECURSIVE TaskOutputs(_, _)
TaskOutputs(a, n) ==
    IF n = 0 THEN SeqToBag(acct[a].s3)
    ELSE SeqToBag(acct[a].futures[n].res) (+) TaskOutputs(a, n - 1)

\* the outputs of the collectors called for the accounts as, as one multiset
RECURSIVE RunOutputs(_)
RunOutputs(as) ==
    IF as = {} THEN EmptyBag
    ELSE LET a == CHOOSE x \in as : TRUE
         IN  TaskOutputs(a, Len(acct[a].futures)) (+) RunOutputs(as \ {a})

\* C16: whatever the order in which the tasks completed, the list an account
\* task returns and the merged list of the run hold the outputs of the tasks
\* as a multiset, and failed_collections holds the same set of entries.
CompletionOrderIndependent ==
    /\ \A a \in accounts :
          AccountFinished(a) =>
              SeqToBag(acct[a].res) = TaskOutputs(a, Len(acct[a].futures))
    /\ (RunEnded /\ accounts # {}) =>
          /\ SeqToBag(all_resources) = RunOutputs(accounts)
          /\ Range(failed_collections) = BagToSet(OwedFailures(accounts))

\* a run ended in which both accounts merged two non-empty task outputs
WitnessCompletionOrderIndependent ==
    /\ RunEnded
    /\ accounts = AccountNames
    /\ \A a \in accounts :
          /\ Len(acct[a].futures) = 2
          /\ \A i \in DOMAIN acct[a].futures : acct[a].futures[i].res # <<>>

\* the (region, type) pairs of the futures of account a
SubmittedPairs(a) ==
    {<<acct[a].futures[i].region, acct[a].futures[i].type>> : i \in DOMAIN acct[a].futures}

\* C17: an account task submits exactly one task for each pair of a region
\* of its region list and an enabled type among ec2, rds and lambda, and no
\* other task; each task calls the collector of its type for its region
\* once, and is not run again when it has failed.
OneTaskPerPair ==
    \A a \in accounts :
        (Started(a) /\ ~acct[a].roleErr /\ ~acct[a].regionErr) =>
            /\ SubmittedPairs(a) =
                  Range(acct[a].regions) \X (resource_types \cap {"ec2", "rds", "lambda"})
            /\ Len(acct[a].futures) = Cardinality(SubmittedPairs(a))
            /\ \A i \in DOMAIN acct[a].futures :
                  LET f == acct[a].futures[i]
                  IN  /\ f.runs = IF f.st = "pending" THEN 0 ELSE 1
                      /\ \A k \in DOMAIN f.res :
                            /\ f.res[k].resource_type = ResourceTypeOf(f.type)
                            /\ f.res[k].region = <<f.region>>

\* an account has run its two tasks, one per region, and the collector of
\* one of them failed
WitnessOneTaskPerPair ==
    \E a \in accounts :
        /\ Len(acct[a].regions) = 2
        /\ Len(acct[a].futures) = 2
        /\ AccountFinished(a)
        /\ \E i \in DOMAIN acct[a].futures : acct[a].futures[i].err

\* C18: collect_s3_buckets is called once for every account whose role was
\* assumed and whose region list was obtained when 's3' is enabled,
\* whatever the number of regions, and is not called when 's3' is not
\* enabled or the account was recorded as failed before its fan-out.
S3OncePerAccount ==
    \A a \in accounts :
        Started(a) =>
            /\ acct[a].s3calls =
                  IF "s3" \in resource_types /\ ~acct[a].roleErr /\ ~acct[a].regionErr
                  THEN 1 ELSE 0
            /\ ("s3" \notin resource_types => acct[a].s3 = <<>>)
            /\ \A k \in DOMAIN acct[a].s3 : acct[a].s3[k].resource_type = <<"s3_bucket">>

\* an account with an empty region list has collected a bucket
WitnessS3OncePerAccount ==
    \E a \in accounts :
        /\ Started(a)
        /\ acct[a].regions = <<>>
        /\ acct[a].s3calls = 1
        /\ acct[a].s3 # <<>>

\* C19: with no account configured collect_inventory does not return a
\* list as a successful collection does, main ends with a non-zero status
\* and the store writer is not called.
NoAccountsSurfaced ==
    accounts = {} =>
        /\ pc # "returned"
        /\ (pc = "exited" => exitCode = 1)
        /\ saveCalls = 0

----------------------------------------------------------------------------
(* AzureResourceGraphCollector.collect *)

\* self.subscription_map: subscription ids by configured name
subscription_map == [test |-> <<"sub1">>]

\* the rows Resource Graph answers with: two virtual machines of the same
\* name in two resource groups of a configured subscription, and one of a
\* subscription that the configuration does not name
GraphItems ==
    {[id |-> <<"rg1", "/", "vm1">>, name |-> <<"vm1">>, type |-> <<"vm">>,
      location |-> "eastus", subscriptionId |-> <<"sub1">>],
     [id |-> <<"rg2", "/", "vm1">>, name |-> <<"vm1">>, type |-> <<"vm">>,
      location |-> "westus", subscriptionId |-> <<"sub1">>],
     [id |-> <<"rg1", "/", "vm2">>, name |-> <<"vm2">>, type |-> <<"vm">>,
      location |-> "eastus", subscriptionId |-> <<"sub2">>]}

\* the data of one page
Pages == UNION {[1..k -> GraphItems] : k \in 0..MaxPageLen}

\* the query results: one page at least
PagedResults == UNION {[1..k -> Pages] : k \in 1..MaxPages}

\* the queries after which a collect that has not ended is left alone
QueryCap == MaxPages + 1

\* the response to the query that carries skip token `token` (0: none): the
\* data of the page and the skip token of the page after it; the last page
\* carries the token `back`, which is empty (0) or names the first page
\* again (a service that never ends the paging)
Response(pages, back, token) ==
    LET p == IF token = 0 THEN 1 ELSE token
    IN  [data |-> pages[p], skip_token |-> IF p < Len(pages) THEN p + 1 ELSE back]

\* _normalize
_normalize(item, now) ==
    LET sub_id == item.subscriptionId
        names == {n \in DOMAIN subscription_map : subscription_map[n] = sub_id}
    IN  [composite_key |-> sub_id \o <<"#">> \o item.type \o <<"#">> \o item.name,
         timestamp |-> now,
         account_id |-> sub_id,
         account_name |-> IF names # {} THEN <<CHOOSE n \in names : TRUE>> ELSE sub_id,
         region |-> item.location,
         resource_type |-> item.type,
         resource_id |-> item.id,
         resource_name |-> item.name]

\* collect is called on a query result
GraphInit ==
    /\ OrchIdle
    /\ WriterIdle
    /\ RetryIdle /\ PoolIdle /\ SqlIdle /\ ConvIdle /\ CostIdle
    /\ \E pages \in PagedResults, back \in {0, 1} :
        graph = [st |-> "first", pages |-> pages, back |-> back, sent |-> <<>>,
                 all_data |-> <<>>, skip |-> 0, closed |-> FALSE, result |-> <<>>]

\* one call of _execute with skip token `token` (0: none) and what collect
\* does with the response; ok = FALSE: _execute raised after its retries
Query(token, ok) ==
    IF ok
    THEN LET response == Response(graph.pages, graph.back, token)
         IN  graph' = [graph EXCEPT !.sent = Append(@, token),
                                    !.all_data = list_extend(@, response.data),
                                    !.skip = response.skip_token,
                                    !.st = IF response.skip_token # 0 THEN "paging"
                                           ELSE "closing"]
    ELSE graph' = [graph EXCEPT !.sent = Append(@, token), !.st = "raised"]

\* the first query of collect, without a skip token
GraphFirstQuery ==
    /\ graph.st = "first"
    /\ \E ok \in BOOLEAN : Query(0, ok)
    /\ UNCHANGED <<orchVars, writerVars, retry, pool, sql, conv, cost>>

\* variant: the request keeps the skip token of the first response
request_token_first(skip, sent) == IF Len(sent) > 1 THEN sent[2] ELSE skip

\* request.options["skipToken"] = skip
request_token(skip, sent) == skip

\* one pass of the while loop of collect
GraphNextQuery ==
    /\ graph.st = "paging"
    /\ Len(graph.sent) < QueryCap
    /\ \E ok \in BOOLEAN : Query(request_token(graph.skip, graph.sent), ok)
    /\ UNCHANGED <<orchVars, writerVars, retry, pool, sql, conv, cost>>

\* client.close() and the return of the normalized rows
GraphReturn ==
    /\ graph.st = "closing"
    /\ graph' = [graph EXCEPT !.closed = TRUE, !.st = "returned",
                              !.result = [i \in DOMAIN graph.all_data |->
                                             _normalize(graph.all_data[i], 1)]]
    /\ UNCHANGED <<orchVars, writerVars, retry, pool, sql, conv, cost>>

GraphNext == GraphFirstQuery \/ GraphNextQuery \/ GraphReturn

GraphSpec == GraphInit /\ [][GraphNext]_vars

\* the event loop runs the coroutine until it ends
FairGraphSpec == GraphSpec /\ WF_vars(GraphNext)

\* the rows of all pages of the query result
RowsOf(pages) == UNION {Range(pages[p]) : p \in DOMAIN pages}

\* C20: collect returns the rows of all pages, and no two returned records
\* have the same composite key.
PagedUnionDeduplicated ==
    graph.st = "returned" =>
        /\ {r.resource_id : r \in Range(graph.result)} =
              {item.id : item \in RowsOf(graph.pages)}
        /\ \A i, j \in DOMAIN graph.result :
              graph.result[i].composite_key = graph.result[j].composite_key => i = j

\* what collect does return: the rows of the pages one after the other, a row
\* that two pages hold twice
PagedConcatenation ==
    graph.st = "returned" =>
        /\ Len(graph.result) = Len(graph.all_data)
        /\ SeqToBag([i \in DOMAIN graph.result |-> graph.result[i].resource_id]) =
              SeqToBag([i \in DOMAIN graph.all_data |-> graph.all_data[i].id])

----------------------------------------------------------------------------
(* AzureInventoryCollector.collect_sql_databases *)

\* a string db.id, as the sequence of the segments of the path
StrId(path) == [t |-> "str", v |-> path]

\* db.id is None
NoneId == [t |-> "None", v |-> <<>>]

\* db.id is a value that is not a string
NonStringId == [t |-> "object", v |-> <<>>]

\* the values db.id takes
SqlIds ==
    {StrId(<<"subscriptions", "sub1", "resourceGroups", "rg1", "providers",
             "Microsoft.Sql", "servers", "s1", "databases", "d1">>),
     StrId(<<"subscriptions", "sub1", "providers", "Microsoft.Sql", "servers", "s1">>),
     StrId(<<"servers", "s1", "databases", "d1">>),
     StrId(<<>>),
     NoneId,
     NonStringId}

\* the databases list_by_subscription returns
DbLists == UNION {[1..k -> SqlIds] : k \in 0..MaxDbs}

\* db.id or ''
IdOrEmpty(id) == IF id.t = "None" THEN StrId(<<>>) ELSE id

\* azure.mgmt.core.tools.parse_resource_id: {} for an empty id, the groups
\* of the path that are present when the id begins with /subscriptions/<id>,
\* {'name': id} otherwise; a value that is not a string makes it raise
parse_resource_id(rid) ==
    IF rid.t # "str" THEN [raised |-> "TypeError"]
    ELSE IF rid.v = <<>> THEN [raised |-> "", parsed |-> <<>>]
    ELSE IF Len(rid.v) >= 2 /\ rid.v[1] = "subscriptions"
    THEN IF Len(rid.v) >= 4 /\ rid.v[3] = "resourceGroups"
         THEN [raised |-> "",
               parsed |-> [subscription |-> rid.v[2], resource_group |-> rid.v[4]]]
         ELSE [raised |-> "", parsed |-> [subscription |-> rid.v[2]]]
    ELSE [raised |-> "", parsed |-> [name |-> "id"]]

\* variant: dict.get without the default
DictGetNone(d, key, default) == IF key \in DOMAIN d THEN d[key] ELSE "None"

\* dict.get(key, default)
DictGet(d, key, default) == IF key \in DOMAIN d THEN d[key] ELSE default

\* the try block of collect_sql_databases and its except clause
ResourceGroupOf(id) ==
    LET call == parse_resource_id(IdOrEmpty(id))
    IN  IF call.raised # "" THEN "unknown"
        ELSE DictGet(call.parsed, "resource_group", "unknown")

\* the record collect_sql_databases appends for a database
SqlRecord(id, now) ==
    [resource_type |-> "sql_database", resource_id |-> id,
     account_id |-> subscription_id, region |-> "eastus", timestamp |-> now,
     attributes |-> [resource_group |-> ResourceGroupOf(id)]]

\* collect_sql_databases is called
SqlInit ==
    /\ OrchIdle
    /\ WriterIdle
    /\ RetryIdle /\ PoolIdle /\ GraphIdle /\ ConvIdle /\ CostIdle
    /\ \E dbs \in DbLists : sql = [st |-> "listing", dbs |-> dbs, resources |-> <<>>]

\* one pass of the for loop over the databases
SqlCollectOne ==
    /\ sql.st = "listing"
    /\ Len(sql.resources) < Len(sql.dbs)
    /\ sql' = [sql EXCEPT !.resources =
                   Append(@, SqlRecord(sql.dbs[Len(sql.resources) + 1], Len(sql.resources) + 1))]
    /\ UNCHANGED <<orchVars, writerVars, retry, pool, graph, conv, cost>>

\* the loop has ended and resources is returned
SqlReturn ==
    /\ sql.st = "listing"
    /\ Len(sql.resources) = Len(sql.dbs)
    /\ sql' = [sql EXCEPT !.st = "returned"]
    /\ UNCHANGED <<orchVars, writerVars, retry, pool, graph, conv, cost>>

SqlNext == SqlCollectOne \/ SqlReturn

SqlSpec == SqlInit /\ [][SqlNext]_vars

\* an id the resource group of which cannot be read: it is missing, is not
\* a string, or does not begin with /subscriptions/<id>/resourceGroups/<name>
Malformed(id) ==
    \/ id.t # "str"
    \/ Len(id.v) < 4
    \/ id.v[1] # "subscriptions"
    \/ id.v[3] # "resourceGroups"

\* C21: collect_sql_databases emits one record per database, in order and
\* without raising; the record of a database whose id is missing or
\* malformed carries the resource group 'unknown', and the databases after
\* it are still collected.
MalformedIdHandled ==
    /\ sql.st \in {"none", "listing", "returned"}
    /\ sql.st # "none" =>
          /\ Len(sql.resources) <= Len(sql.dbs)
          /\ sql.st = "returned" => Len(sql.resources) = Len(sql.dbs)
          /\ \A k \in DOMAIN sql.resources :
                /\ sql.resources[k].resource_id = sql.dbs[k]
                /\ sql.resources[k].attributes.resource_group =
                      IF Malformed(sql.dbs[k]) THEN "unknown" ELSE sql.dbs[k].v[4]

\* a malformed id, an id whose parsing raises and a well-formed id were
\* collected, in this order
WitnessMalformedIdHandled ==
    /\ sql.st = "returned"
    /\ Len(sql.dbs) = 3
    /\ sql.dbs[1] = StrId(<<"servers", "s1", "databases", "d1">>)
    /\ sql.dbs[2] = NonStringId
    /\ sql.resources[3].attributes.resource_group = "rg1"

----------------------------------------------------------------------------
(* get_regions *)

\* the described regions that are not excluded, in the order of the answer
EnabledRegions == SelectSeq(DescribedRegions, LAMBDA r : r \notin excluded_regions)

\* C23: get_regions never raises: an account whose role was assumed has a
\* region list, which is the described regions that are not excluded, in
\* order, when describe_regions answers, and ['us-east-1'] when it fails.
RegionFallback ==
    \A a \in accounts :
        (Started(a) /\ ~acct[a].roleErr) =>
            /\ ~acct[a].regionErr
            /\ acct[a].regions \in {EnabledRegions, <<"us-east-1">>}

\* what holds of get_regions: once the EC2 client exists, the region list
\* is the filtered answer or the fallback, and the account is not failed
RegionFallbackWithClient ==
    \A a \in accounts :
        (Started(a) /\ ~acct[a].roleErr /\ ~acct[a].regionErr) =>
            /\ acct[a].describes = 1
            /\ FailuresOf(a) = <<>>
            /\ acct[a].regions \in {EnabledRegions, <<"us-east-1">>}

\* C25: no collector task is submitted for a region of excluded_regions,
\* whether the region list is the answer of describe_regions or the
\* fallback.
NoExcludedRegionCollected ==
    \A a \in accounts : \A i \in DOMAIN acct[a].futures :
        acct[a].futures[i].region \notin excluded_regions

\* what holds: the tasks of an account are in the regions of its region
\* list, and an excluded region among them is the fallback region
NoExcludedRegionDescribed ==
    \A a \in accounts : \A i \in DOMAIN acct[a].futures :
        /\ acct[a].futures[i].region \in Range(acct[a].regions)
        /\ acct[a].futures[i].region \in excluded_regions =>
              acct[a].regions = <<"us-east-1">>

----------------------------------------------------------------------------
(* save_to_dynamodb: convert_floats and the item of a resource *)

\* Python values: a float is given by its shortest decimal representation
\* in tenths (25 is 2.5), a str by its tokens, a dict by a function on its
\* keys and a list by a sequence
PyFloat(tenths) == [t |-> "float", v |-> tenths]
PyInt(n) == [t |-> "int", v |-> n]
PyStr(tokens) == [t |-> "str", v |-> tokens]
PyDict(f) == [t |-> "dict", v |-> f]
PyList(seq) == [t |-> "list", v |-> seq]

\* the floats the collectors produce: 0.1, 2.5 and 3.0
Floats == {PyFloat(1), PyFloat(25), PyFloat(30)}

Scalars == Floats \cup {PyInt(1), PyStr(<<"x">>)}

\* the keys of a nested dict
DictKeys == {"a", "b"}

\* the values nested at most d deep, with at most MaxKids entries in a
\* dict or a list
RECURSIVE Objects(_)
Objects(d) ==
    IF d = 0 THEN Scalars
    ELSE LET inner == Objects(d - 1)
         IN  Scalars
             \cup {PyList(l) : l \in UNION {[1..k -> inner] : k \in 0..MaxKids}}
             \cup {PyDict(f) : f \in UNION {[K -> inner] :
                       K \in {X \in SUBSET DictKeys : Cardinality(X) <= MaxKids}}}

\* str(obj) of a float: the digits before the point, the point, the digit
\* after it
str_float(obj) == <<obj.v \div 10, ".", obj.v % 10>>

\* Decimal(text): the digits of the text and the number of them that
\* follow the point
Decimal(text) == [t |-> "Decimal", digits |-> text[1] * 10 + text[3], exp |-> 1]

\* variant: a list is returned as it is
convert_list_shallow(seq, inner) == seq

\* the list branch of convert_floats: [convert_floats(v) for v in obj],
\* inner being the conversions of the elements
convert_list(seq, inner) == inner

\* convert_floats(obj)
RECURSIVE convert_floats(_)
convert_floats(obj) ==
    IF obj.t = "float" THEN Decimal(str_float(obj))
    ELSE IF obj.t = "dict"
    THEN PyDict([k \in DOMAIN obj.v |-> convert_floats(obj.v[k])])
    ELSE IF obj.t = "list"
    THEN PyList(convert_list(obj.v, [i \in DOMAIN obj.v |-> convert_floats(obj.v[i])]))
    ELSE obj

\* the resource dicts handed to save_to_dynamodb: the normalized fields, a
\* float cost estimate and nested attributes
ConvertResources ==
    {PyDict([resource_type |-> PyStr(<<"ec2_instance">>), resource_id |-> PyStr(<<"i-1">>),
           account_id |-> PyStr(<<"111">>), account_name |-> PyStr(<<"dev">>),
           region |-> PyStr(<<"us-east-1">>), timestamp |-> PyStr(<<"t1">>),
           estimated_monthly_cost |-> c, attributes |-> o]) :
        c \in Floats, o \in Objects(MaxDepth)}

\* the item of save_to_dynamodb for a resource dict: pk, sk, resource_type
\* and department, then the entries of convert_floats(resource), which
\* replace an entry of the same key
ConvertedItem(resource) ==
    LET r == resource.v
        head == [pk |-> PyStr(Pk([resource_type |-> r["resource_type"].v,
                                account_id |-> r["account_id"].v,
                                region |-> r["region"].v,
                                resource_id |-> r["resource_id"].v])),
                 sk |-> r["timestamp"],
                 resource_type |-> r["resource_type"],
                 department |-> r["account_name"]]
        rest == convert_floats(resource).v
    IN  PyDict([k \in DOMAIN head \cup DOMAIN rest |->
                 IF k \in DOMAIN rest THEN rest[k] ELSE head[k]])

\* save_to_dynamodb is called with one resource
ConvertInit ==
    /\ OrchIdle
    /\ WriterIdle
    /\ RetryIdle /\ PoolIdle /\ GraphIdle /\ SqlIdle /\ CostIdle
    /\ \E r \in ConvertResources : conv = [st |-> "called", resource |-> r]

\* the pass of the loop of save_to_dynamodb for the resource: the item is
\* built and handed to batch.put_item
ConvertPut ==
    /\ conv.st = "called"
    /\ conv' = [st |-> "put", resource |-> conv.resource,
                item |-> ConvertedItem(conv.resource)]
    /\ UNCHANGED <<orchVars, writerVars, retry, pool, graph, sql, cost>>

ConvertNext == ConvertPut

ConvertSpec == ConvertInit /\ [][ConvertNext]_vars

\* a float occurs in obj, in a dict or a list at any depth
RECURSIVE HasFloat(_)
HasFloat(obj) ==
    \/ obj.t = "float"
    \/ obj.t \in {"dict", "list"} /\ \E k \in DOMAIN obj.v : HasFloat(obj.v[k])

\* out is obj with every float replaced by the decimal of the same digits,
\* and nothing else changed
RECURSIVE ExactCopy(_, _)
ExactCopy(obj, out) ==
    IF obj.t = "float"
    THEN out.t = "Decimal" /\ out.digits = obj.v /\ out.exp = 1
    ELSE IF obj.t \in {"dict", "list"}
    THEN /\ out.t = obj.t
         /\ DOMAIN out.v = DOMAIN obj.v
         /\ \A k \in DOMAIN obj.v : ExactCopy(obj.v[k], out.v[k])
    ELSE out = obj

\* C24: the item handed to the store holds no float at any depth of its
\* dicts and lists; every entry of the resource is in the item under its
\* key, with each float replaced by the decimal of its str() and every
\* other value, key and container unchanged.
ExactDecimalConversion ==
    conv.st = "put" =>
        /\ ~HasFloat(conv.item)
        /\ \A k \in DOMAIN conv.resource.v :
              /\ k \in DOMAIN conv.item.v
              /\ ExactCopy(conv.resource.v[k], conv.item.v[k])
        /\ DOMAIN conv.item.v = DOMAIN conv.resource.v \cup {"pk", "sk", "department"}

\* the item of a resource with a float in a list of its attributes and a
\* float cost estimate was handed to the store
WitnessExactDecimalConversion ==
    /\ conv.st = "put"
    /\ conv.resource.v["attributes"].t = "list"
    /\ HasFloat(conv.resource.v["attributes"])
    /\ conv.item.v["estimated_monthly_cost"] = [t |-> "Decimal", digits |-> 25, exp |-> 1]

----------------------------------------------------------------------------
(* Specification of successive calls of collect_inventory on one object *)

RecallInit ==
    /\ Init
    /\ accounts = {"dev"}
    /\ resource_types \in {{"ec2", "rds"}, {"s3"}}
    /\ excluded_regions = {"eu-west-1"}

\* between two calls of collect_inventory on the same collector object:
\* load_config reads the configuration again, in which the accounts are
\* as before or are all disabled; nothing else of the object is assigned
Reconfigure ==
    /\ pc = "returned"
    /\ clock < MaxRuns
    /\ pc' = "idle"
    /\ accounts' \in {accounts, {}}
    /\ UNCHANGED <<resource_types, excluded_regions, failed_collections, clock,
                   all_resources, acct, table, saveCalls, saveArg, saveFault,
                   exitCode, summaryFailed>>
    /\ UNCHANGED <<writerVars, unitVars>>

RecallNext ==
    \/ StartRun
    \/ \E a \in AccountNames : AccountStart(a)
    \/ \E a \in AccountNames : \E i \in DOMAIN acct[a].futures : TaskRun(a, i)
    \/ \E a \in AccountNames : \E i \in DOMAIN acct[a].futures : TaskMerge(a, i)
    \/ \E a \in AccountNames : AccountReturn(a)
    \/ \E a \in AccountNames : AccountMerge(a)
    \/ SaveAndReturn
    \/ Reconfigure

RecallSpec == RecallInit /\ [][RecallNext]_vars

\* C26: when a call of collect_inventory has returned, failed_collections
\* holds the failure entries of that call and no other entry, also when
\* the call was made with no account configured.
FailuresRunScoped ==
    pc = "returned" => SeqToBag(failed_collections) = OwedFailures(accounts)

\* what holds: a call that was made with accounts configured leaves only
\* its own failure entries, also when an earlier call left an entry
FailuresResetWithAccounts ==
    (pc = "returned" /\ accounts # {}) =>
        SeqToBag(failed_collections) = OwedFailures(accounts)

\* a second call with the same account followed a call that left a failure
\* entry, and left none
SecondCallReset ==
    /\ pc = "returned"
    /\ clock = 2
    /\ accounts # {}
    /\ failed_collections = <<>>
    /\ \A a \in accounts : acct[a].st = "merged" /\ ~acct[a].roleErr

----------------------------------------------------------------------------
(* Injectivity of the store keys *)

\* C27: two resources that differ in resource_type, account_id, region or
\* resource_id are never stored under the same key; here for the
\* composite_key of the rows collect returns (GraphSpec).
CompositeKeyInjective ==
    \A i, j \in DOMAIN graph.result :
        SameIdentity(graph.result[i], graph.result[j])
            \/ graph.result[i].composite_key # graph.result[j].composite_key

\* the same for the keys of the DynamoDB writer and of the two Table
\* Storage writers (WriterSpec): it is violated by the resource ids vm/1
\* and vm_1, which Table Storage holds under one RowKey
WriterKeyInjective ==
    \A h \in Range(wHist) : \A i, j \in DOMAIN wList :
        ~SameIdentity(wList[i], wList[j]) => h.keys[i] # h.keys[j]

\* what holds of the DynamoDB writer: the '#'-joined pk separates
\* resources whose four fields hold no '#'
DynamoKeyInjective ==
    wWriter = "dynamodb" =>
        \A h \in Range(wHist) : \A i, j \in DOMAIN wList :
            ~SameIdentity(wList[i], wList[j]) => h.keys[i][1] # h.keys[j][1]

----------------------------------------------------------------------------
(* The paging of AzureResourceGraphCollector.collect *)

\* the response to query k of a collect
ResponseTo(k) == Response(graph.pages, graph.back, graph.sent[k])

\* the queries of a collect that were answered: all of them, but the last
\* one when it raised
Answered == IF graph.st = "raised" THEN Len(graph.sent) - 1 ELSE Len(graph.sent)

\* the data of the responses to the queries 1..k, one after the other
RECURSIVE DataUpTo(_)
DataUpTo(k) == IF k = 0 THEN <<>> ELSE DataUpTo(k - 1) \o ResponseTo(k).data

\* collect has ended, with its return or with the exception of a query
GraphEnded == graph.st \in {"returned", "raised"}

\* C28: the first query carries no skip token and every later query the
\* skip token of the response before it; every response is taken once, in
\* order; the loop is left at the first response with an empty skip token
\* and not before; collect returns only when the service has sent an empty
\* skip token, and ends whenever the service does send one.
SkipTokenProtocol ==
    /\ [](graph.st # "none" =>
            /\ (graph.sent # <<>> => graph.sent[1] = 0)
            /\ \A k \in 2..Len(graph.sent) :
                  /\ ResponseTo(k - 1).skip_token # 0
                  /\ graph.sent[k] = ResponseTo(k - 1).skip_token
            /\ graph.all_data = DataUpTo(Answered)
            /\ (graph.st = "paging" => ResponseTo(Len(graph.sent)).skip_token # 0)
            /\ (graph.st \in {"closing", "returned"} =>
                  ResponseTo(Len(graph.sent)).skip_token = 0))
    /\ [](graph.st = "returned" => graph.back = 0)
    /\ (graph.st # "none" /\ graph.back = 0 => <>GraphEnded)

\* collect returned after three queries
WitnessSkipTokenProtocol ==
    /\ graph.st = "returned"
    /\ graph.sent = <<0, 2, 3>>
    /\ Len(graph.all_data) = 3

\* a collect whose service never sends an empty skip token has read the
\* first page twice
PagingNeverEnds ==
    /\ graph.back = 1
    /\ graph.st = "paging"
    /\ Len(graph.sent) = QueryCap

\* C29: collect has closed its ResourceGraphClient when it ends, by its
\* return or by the exception of the query of the first or a later page.
ClientClosedOnExit == GraphEnded => graph.closed

\* what holds: the client is closed when collect returns
ClientClosedOnReturn == graph.st = "returned" => graph.closed

----------------------------------------------------------------------------
(* AzureCostCollector.update_daily_cost *)

Days == 1..MaxDays

\* the totals Cost Management reports for a day
CostValues == {1, 3}

\* the subscription of the collector and another one whose records are in
\* the same container
Subscriptions == {<<"sub1">>, <<"sub2">>}

\* a record of the container
CostItem(sub, day, total, delta) ==
    [id |-> sub \o <<"_", day>>, subscription_id |-> sub, date |-> day,
     total_cost |-> total, delta |-> delta]

\* the containers update_daily_cost finds: at most one record for a
\* subscription and a day
CostStores ==
    {s \in SUBSET {CostItem(sub, day, total, 0) :
                       sub \in Subscriptions, day \in Days, total \in CostValues} :
        \A x, y \in s : x.id = y.id => x = y}

\* _get_last_total: the total_cost of the record of the subscription with
\* the latest date, 0.0 when it has none
_get_last_total(store) ==
    LET mine == {x \in store : x.subscription_id = subscription_id}
    IN  IF mine = {} THEN 0
        ELSE (CHOOSE x \in mine : \A y \in mine : y.date <= x.date).total_cost

\* container.upsert_item: the item replaces the one with its id
upsert_item(store, item) == {x \in store : x.id # item.id} \cup {item}

\* the item update_daily_cost builds for a day
DailyCostItem(store, total, day) ==
    CostItem(subscription_id, day, total, total - _get_last_total(store))

\* a collector is created on a container; upstream: what _fetch_cost
\* returns for each day
CostInit ==
    /\ OrchIdle
    /\ WriterIdle
    /\ RetryIdle /\ PoolIdle /\ GraphIdle /\ SqlIdle /\ ConvIdle
    /\ \E store \in CostStores, upstream \in [Days -> CostValues] :
        cost = [st |-> "ready", store |-> store, upstream |-> upstream, hist |-> <<>>]

\* update_daily_cost(day)
UpdateDailyCost ==
    /\ cost.st = "ready"
    /\ Len(cost.hist) < MaxUpdates
    /\ \E day \in Days :
        LET item == DailyCostItem(cost.store, cost.upstream[day], day)
        IN  cost' = [cost EXCEPT !.store = upsert_item(@, item),
                                 !.hist = Append(@, [day |-> day, item |-> item,
                                                     before |-> cost.store])]
    /\ UNCHANGED <<orchVars, writerVars, retry, pool, graph, sql, conv>>

CostNext == UpdateDailyCost

CostSpec == CostInit /\ [][CostNext]_vars

\* the record the container holds under the id of item
StoredAs(store, item) == CHOOSE x \in store : x.id = item.id

\* C30: a call of update_daily_cost that follows a call for the same day
\* stores the item the first call stored: same id, total_cost and delta.
DailyCostIdempotent ==
    \A i \in 1..(Len(cost.hist) - 1) :
        cost.hist[i + 1].day = cost.hist[i].day =>
            cost.hist[i + 1].item = cost.hist[i].item

\* what holds: the second call stores the same id, date and total_cost,
\* and the delta 0 when the day is the latest one of the subscription
DailyCostRepeated ==
    \A i \in 1..(Len(cost.hist) - 1) :
        LET first == cost.hist[i]
            second == cost.hist[i + 1]
        IN  first.day = second.day =>
                /\ second.item.id = first.item.id
                /\ second.item.total_cost = first.item.total_cost
                /\ (\A x \in first.before :
                        x.subscription_id = subscription_id => x.date <= first.day)
                      => second.item.delta = 0

\* the day was updated twice and the container held an earlier record of
\* the subscription with another total
DailyCostRepeatedAfterChange ==
    /\ Len(cost.hist) = 2
    /\ cost.hist[1].day = 2 /\ cost.hist[2].day = 2
    /\ cost.hist[1].item.delta # 0
    /\ StoredAs(cost.store, cost.hist[2].item).delta = 0

====
